---- MODULE Spec2Model ----
(***************************************************************************)
(* Model of src/curve_withdraw.py (main and the functions it calls) and   *)
(* of the constants of src/config.py: one run of the script against a     *)
(* forked node.  The node, the pool contract and the token contract are   *)
(* the environment: their answers are drawn from small sets.              *)
(***************************************************************************)
EXTENDS Integers, Sequences, FiniteSets, TLC

\* ------------------------------------------------------------------ bounds
\* LP balances 0..MaxLp are tried next to the larger ones of LpInputs.
MaxLp == 3
\* Pool outputs 0..MaxOut are tried next to the larger ones of OutInputs.
MaxOut == 2
\* The pool's coin list has at most MaxCoins entries.
MaxCoins == 5

\* ------------------------------------------------------- config.py constants
SLIPPAGE_BPS == 99
MAX_COINS_CHECK == 4
MIN_BURN_BPS == 1
MAX_BURN_BPS == 10000

\* An address string is a record: whose address it is, and how it is written.
\* "lower" and "checksum" are the spellings to_checksum_address accepts,
\* "malformed" is a string that is no address, "none" an absent argument.
Addr(id, form) == [id |-> id, form |-> form]
NoAddress == Addr("", "none")
POOL_ADDRESS == Addr("pool", "checksum")
USDC_ADDRESS == Addr("usdc", "checksum")

\* ------------------------------------------------------------ input sets
AddressInputs ==
    { NoAddress, Addr("holder", "malformed"), Addr("holder", "lower"),
      Addr("holder", "checksum") }
BurnBpsInputs == {0, 1, 100, 5000, 10000, 10001}
\* (TLC's integers are 32 bits wide: lp_balance * burn_bps stays below 2^31.)
LpInputs == (0..MaxLp) \cup {50, 200000}
OutInputs == (0..MaxOut) \cup {100, 9850}
CoinInputs == { Addr("tokenA", "checksum"), Addr("usdc", "lower"), Addr("usdc", "checksum") }

\* Sequences over S of length 0..n.
RECURSIVE SeqsUpTo(_, _)
SeqsUpTo(S, n) ==
    IF n = 0 THEN { <<>> }
    ELSE LET shorter == SeqsUpTo(S, n - 1)
         IN  shorter \cup { Append(s, x) : s \in { t \in shorter : Len(t) = n - 1 }, x \in S }

\* ------------------------------------------------------------- pure code

\* Web3.to_checksum_address: the canonical spelling of a well-formed address;
\* ValueError otherwise.
IsAddress(a) == a.form \in {"lower", "checksum"}
to_checksum_address(a) == Addr(a.id, "checksum")

\* parse_args without the range check on --burn-bps.
parse_args_no_range_check(argv) ==
    IF argv.impersonated_address.form = "none" THEN "missing_address" ELSE "ok"

\* parse_args: the two usage checks after argparse has read the flags.
parse_args(argv) ==
    IF argv.impersonated_address.form = "none" THEN "missing_address"
    ELSE IF ~(MIN_BURN_BPS <= argv.burn_bps /\ argv.burn_bps <= MAX_BURN_BPS)
         THEN "burn_bps_range"
    ELSE "ok"

\* calc_burn_amount dividing before it multiplies.
calc_burn_amount_divides_first(lp_balance, burn_bps) ==
    LET burn_amount == (lp_balance \div MAX_BURN_BPS) * burn_bps
    IN  IF burn_amount = 0
        THEN [exit |-> TRUE, value |-> 0]
        ELSE [exit |-> FALSE, value |-> burn_amount]

\* calc_burn_amount without the zero check.
calc_burn_amount_returns_zero(lp_balance, burn_bps) ==
    [exit |-> FALSE, value |-> (lp_balance * burn_bps) \div MAX_BURN_BPS]

\* calc_burn_amount: the amount returned, or the exit when it is zero.
calc_burn_amount(lp_balance, burn_bps) ==
    LET burn_amount == (lp_balance * burn_bps) \div MAX_BURN_BPS
    IN  IF burn_amount = 0
        THEN [exit |-> TRUE, value |-> 0]
        ELSE [exit |-> FALSE, value |-> burn_amount]

\* The slippage buffer applied the wrong way round.
compute_min_received_swapped(expected_usdc) == (expected_usdc * 100) \div SLIPPAGE_BPS

\* main, line 268.
compute_min_received(expected_usdc) == (expected_usdc * SLIPPAGE_BPS) \div 100

\* to_checksum: the checksummed address, or the sys.exit on a ValueError.
to_checksum(address) ==
    IF IsAddress(address)
    THEN [exit |-> FALSE, value |-> to_checksum_address(address)]
    ELSE [exit |-> TRUE, value |-> address]

\* pool.functions.coins(i).call(): the i-th coin (0-based); the call reverts
\* past the end of the list.
CoinsReverts(coins, i) == i >= Len(coins)
CoinAt(coins, i) == coins[i + 1]

\* get_usdc_index: the loop from position i on, `probed` being the positions
\* read so far.  The result is the position returned, or the sys.exit after
\* the loop (exit = TRUE).
RECURSIVE get_usdc_index_loop(_, _, _, _)
get_usdc_index_loop(coins, usdc_address, i, probed) ==
    IF i >= MAX_COINS_CHECK THEN [exit |-> TRUE, index |-> -1, probed |-> probed]
    ELSE IF CoinsReverts(coins, i)
         THEN [exit |-> TRUE, index |-> -1, probed |-> Append(probed, i)]
    ELSE IF to_checksum_address(CoinAt(coins, i)) = to_checksum_address(usdc_address)
         THEN [exit |-> FALSE, index |-> i, probed |-> Append(probed, i)]
    ELSE get_usdc_index_loop(coins, usdc_address, i + 1, Append(probed, i))

\* get_usdc_index falling back to position 0 when nothing matches.
get_usdc_index_default(coins, usdc_address) ==
    LET r == get_usdc_index_loop(coins, usdc_address, 0, <<>>)
    IN  IF r.exit THEN [exit |-> FALSE, index |-> 0, probed |-> r.probed] ELSE r

get_usdc_index(coins, usdc_address) == get_usdc_index_loop(coins, usdc_address, 0, <<>>)

\* ------------------------------------------------------------------ state
VARIABLES
    pc,      \* the position of main
    argv,    \* the command line: impersonated_address, burn_bps, dry_run
    coins,   \* node: the pool's coin list
    chain,   \* node: the holder's LP, USDC and native balances, impersonation flag
    locals,  \* main's local variables
    trace,   \* the remote calls and computations made so far, in order
    exit     \* the process exit: code (-1 while running), message, tx hash

vars == <<pc, argv, coins, chain, locals, trace, exit>>

NONE == -1
NoBalances ==
    [lp_balance |-> NONE, usdc_balance |-> NONE, lp_decimals |-> NONE,
     usdc_decimals |-> NONE, usdc_symbol |-> ""]
NoLocals ==
    [impersonated |-> NoAddress, pool_address |-> NoAddress, usdc_address |-> NoAddress,
     funding_account |-> NoAddress,
     usdc_index |-> NONE, probed |-> <<>>, balances_before |-> NoBalances,
     burn_amount |-> NONE, expected_usdc |-> NONE, min_received |-> NONE,
     tx_hash |-> "", status |-> NONE, balances_after |-> NoBalances,
     lp_burned |-> NONE, usdc_received |-> NONE]
Running == [code |-> -1, msg |-> "", hash |-> ""]

\* sys.exit(message) exits with code 1, parser.error with code 2.
SysExit(msg, hash) == [code |-> 1, msg |-> msg, hash |-> hash]
ParserError(msg) == [code |-> 2, msg |-> msg, hash |-> ""]

\* The calls that go to the node.
RpcEvents ==
    { "is_connected", "eth_accounts", "anvil_impersonateAccount", "eth_sendTransaction",
      "coins", "read_balances", "calc_withdraw_one_coin", "remove_liquidity_one_coin",
      "wait_for_transaction_receipt" }

Count(e) == Cardinality({ k \in 1..Len(trace) : trace[k] = e })
Did(e) == \E k \in 1..Len(trace) : trace[k] = e
\* Every e of the trace comes before every f of the trace.
Before(e, f) == \A k, m \in 1..Len(trace) : (trace[k] = e /\ trace[m] = f) => k < m

\* read_balances: the five reads, as one record.
read_balances(c) ==
    [lp_balance |-> c.lp, usdc_balance |-> c.usdc, lp_decimals |-> 18,
     usdc_decimals |-> 6, usdc_symbol |-> "USDC"]

\* The coin lists of the runs of Spec: the deployed pool, the two lists of the
\* spec's examples, an empty list and a list whose USDC lies past the bound.
PoolCoinLists ==
    { << Addr("usdc", "checksum"), Addr("crvusd", "checksum") >>,
      << Addr("tokenA", "checksum"), Addr("tokenB", "checksum"),
         Addr("usdc", "lower"), Addr("tokenD", "checksum") >>,
      << Addr("tokenA", "checksum"), Addr("tokenB", "checksum") >>,
      << >>,
      << Addr("tokenA", "checksum"), Addr("tokenB", "checksum"), Addr("tokenA", "checksum"),
         Addr("tokenB", "checksum"), Addr("usdc", "checksum") >> }

InitRun ==
    /\ pc = "parse_args"
    /\ locals = NoLocals
    /\ trace = << >>
    /\ exit = Running

Init ==
    /\ InitRun
    /\ argv \in [impersonated_address : AddressInputs, burn_bps : BurnBpsInputs,
                 dry_run : BOOLEAN]
    /\ coins \in PoolCoinLists
    /\ chain \in [lp : LpInputs, usdc : {0, 7}, eth_tenths : {0}, impersonating : {FALSE}]

\* ---------------------------------------------------------------- actions

\* main, line 243.
ParseArgs ==
    /\ pc = "parse_args"
    /\ LET r == parse_args(argv)
       IN  IF r = "ok"
           THEN pc' = "get_web3" /\ exit' = exit
           ELSE pc' = "exit" /\ exit' = ParserError(r)
    /\ UNCHANGED <<argv, coins, chain, locals, trace>>

\* main, line 246: get_web3.
GetWeb3 ==
    /\ pc = "get_web3"
    /\ trace' = Append(trace, "is_connected")
    /\ \E connected \in BOOLEAN :
         IF connected
         THEN pc' = "to_checksum" /\ exit' = exit
         ELSE pc' = "exit" /\ exit' = SysExit("connect_failed", "")
    /\ UNCHANGED <<argv, coins, chain, locals>>

\* main, lines 247-249: the three to_checksum calls (the two configured
\* addresses are well-formed).
ToChecksum ==
    /\ pc = "to_checksum"
    /\ LET r == to_checksum(argv.impersonated_address)
       IN  IF r.exit
           THEN /\ pc' = "exit"
                /\ exit' = SysExit("invalid_address", "")
                /\ locals' = locals
           ELSE /\ pc' = "accounts"
                /\ exit' = exit
                /\ locals' = [locals EXCEPT !.impersonated = r.value,
                                            !.pool_address = to_checksum(POOL_ADDRESS).value,
                                            !.usdc_address = to_checksum(USDC_ADDRESS).value]
    /\ UNCHANGED <<argv, coins, chain, trace>>

\* main, lines 251-253: w3.eth.accounts is read for the check and, when it is
\* not empty, once more for its first entry.
Accounts ==
    /\ pc = "accounts"
    /\ \E has_accounts \in BOOLEAN :
         IF has_accounts
         THEN /\ pc' = "impersonate_and_fund"
              /\ exit' = exit
              /\ trace' = trace \o << "eth_accounts", "eth_accounts" >>
              /\ locals' = [locals EXCEPT !.funding_account = Addr("funder", "checksum")]
         ELSE /\ pc' = "exit"
              /\ exit' = SysExit("no_accounts", "")
              /\ trace' = Append(trace, "eth_accounts")
              /\ locals' = locals
    /\ UNCHANGED <<argv, coins, chain>>

\* impersonate_and_fund without the funding transaction.
ImpersonateAndFund_no_funding ==
    /\ pc = "impersonate_and_fund"
    /\ trace' = Append(trace, "anvil_impersonateAccount")
    /\ \E error \in BOOLEAN :
         IF error
         THEN /\ pc' = "exit"
              /\ exit' = SysExit("impersonation_error", "")
              /\ chain' = chain
         ELSE /\ pc' = "get_usdc_index"
              /\ exit' = exit
              /\ chain' = [chain EXCEPT !.impersonating = TRUE]
    /\ UNCHANGED <<argv, coins, locals>>

\* main, line 258: impersonate_and_fund.
ImpersonateAndFund ==
    /\ pc = "impersonate_and_fund"
    /\ \E error \in BOOLEAN :
         IF error
         THEN /\ pc' = "exit"
              /\ exit' = SysExit("impersonation_error", "")
              /\ trace' = Append(trace, "anvil_impersonateAccount")
              /\ chain' = chain
         ELSE /\ pc' = "get_usdc_index"
              /\ exit' = exit
              /\ trace' = trace \o << "anvil_impersonateAccount", "eth_sendTransaction" >>
              /\ chain' = [chain EXCEPT !.impersonating = TRUE, !.eth_tenths = @ + 1]
    /\ UNCHANGED <<argv, coins, locals>>

\* main, line 260: get_usdc_index.
GetUsdcIndex ==
    /\ pc = "get_usdc_index"
    /\ LET r == get_usdc_index(coins, locals.usdc_address)
       IN  /\ trace' = trace \o [k \in 1..Len(r.probed) |-> "coins"]
           /\ IF r.exit
              THEN /\ pc' = "exit"
                   /\ exit' = SysExit("usdc_not_found", "")
                   /\ locals' = [locals EXCEPT !.probed = r.probed]
              ELSE /\ pc' = "read_balances"
                   /\ exit' = exit
                   /\ locals' = [locals EXCEPT !.usdc_index = r.index, !.probed = r.probed]
    /\ UNCHANGED <<argv, coins, chain>>

\* The first snapshot without the zero-balance guard.
ReadBalancesBefore_no_zero_guard ==
    /\ pc = "read_balances"
    /\ trace' = Append(trace, "read_balances")
    /\ locals' = [locals EXCEPT !.balances_before = read_balances(chain)]
    /\ pc' = "calc_burn_amount"
    /\ UNCHANGED <<argv, coins, chain, exit>>

\* main, lines 262-264.
ReadBalancesBefore ==
    /\ pc = "read_balances"
    /\ trace' = Append(trace, "read_balances")
    /\ LET b == read_balances(chain)
       IN  /\ locals' = [locals EXCEPT !.balances_before = b]
           /\ IF b.lp_balance = 0
              THEN pc' = "exit" /\ exit' = SysExit("lp_balance_zero", "")
              ELSE pc' = "calc_burn_amount" /\ exit' = exit
    /\ UNCHANGED <<argv, coins, chain>>

\* main, line 266: calc_burn_amount.
CalcBurnAmount ==
    /\ pc = "calc_burn_amount"
    /\ trace' = Append(trace, "calc_burn_amount")
    /\ LET r == calc_burn_amount(locals.balances_before.lp_balance, argv.burn_bps)
       IN  IF r.exit
           THEN pc' = "exit" /\ exit' = SysExit("burn_amount_zero", "") /\ locals' = locals
           ELSE /\ pc' = "estimate_usdc"
                /\ exit' = exit
                /\ locals' = [locals EXCEPT !.burn_amount = r.value]
    /\ UNCHANGED <<argv, coins, chain>>

\* main, line 267: estimate_usdc; the pool's estimate is any amount.
EstimateUsdc ==
    /\ pc = "estimate_usdc"
    /\ trace' = Append(trace, "calc_withdraw_one_coin")
    /\ \E expected \in OutInputs :
         IF expected = 0
         THEN pc' = "exit" /\ exit' = SysExit("estimate_zero", "") /\ locals' = locals
         ELSE /\ pc' = "min_received"
              /\ exit' = exit
              /\ locals' = [locals EXCEPT !.expected_usdc = expected]
    /\ UNCHANGED <<argv, coins, chain>>

\* main, line 268.
ComputeMinReceived ==
    /\ pc = "min_received"
    /\ trace' = Append(trace, "min_received")
    /\ locals' = [locals EXCEPT !.min_received = compute_min_received(locals.expected_usdc)]
    /\ pc' = "dry_run_or_withdraw"
    /\ UNCHANGED <<argv, coins, chain, exit>>

\* main, lines 270-281: log_dry_run and return.
DryRun ==
    /\ pc = "dry_run_or_withdraw"
    /\ argv.dry_run
    /\ trace' = Append(trace, "log_dry_run")
    /\ pc' = "done"
    /\ exit' = [code |-> 0, msg |-> "dry_run", hash |-> ""]
    /\ UNCHANGED <<argv, coins, chain, locals>>

\* withdraw_one_coin submitting again, with no minimum, after a failed receipt.
withdraw_one_coin_resubmits ==
    /\ pc = "dry_run_or_withdraw"
    /\ Count("remove_liquidity_one_coin") < 2
    /\ trace' = trace \o << "remove_liquidity_one_coin", "wait_for_transaction_receipt" >>
    /\ \E out \in OutInputs, mined \in BOOLEAN :
         LET success == mined /\ out >= locals.min_received
             status == IF success THEN 1 ELSE 0
         IN  /\ chain' = IF success
                         THEN [chain EXCEPT !.lp = @ - locals.burn_amount, !.usdc = @ + out]
                         ELSE chain
             /\ IF status # 1
                THEN /\ pc' = "dry_run_or_withdraw"
                     /\ locals' = [locals EXCEPT !.tx_hash = "0xtx", !.status = status,
                                                 !.min_received = 0]
                ELSE /\ pc' = "report"
                     /\ locals' = [locals EXCEPT !.tx_hash = "0xtx", !.status = status]
    /\ UNCHANGED <<argv, coins, exit>>

\* withdraw_one_coin without the check of receipt.status.
withdraw_one_coin_ignores_status ==
    /\ pc = "dry_run_or_withdraw"
    /\ trace' = trace \o << "remove_liquidity_one_coin", "wait_for_transaction_receipt" >>
    /\ \E out \in OutInputs, mined \in BOOLEAN :
         LET success == mined /\ out >= locals.min_received
         IN  /\ chain' = IF success
                         THEN [chain EXCEPT !.lp = @ - locals.burn_amount, !.usdc = @ + out]
                         ELSE chain
             /\ locals' = [locals EXCEPT !.tx_hash = "0xtx",
                                         !.status = IF success THEN 1 ELSE 0]
    /\ pc' = "report"
    /\ UNCHANGED <<argv, coins, exit>>

\* withdraw_one_coin: transact, wait for the receipt, exit unless its status
\* is 1.  The pool pays out any amount `out`; it reverts the whole transaction
\* when out < min_received, and the transaction may fail for any other reason
\* (mined = FALSE).  A reverted transaction changes no balance.
withdraw_one_coin ==
    /\ pc = "dry_run_or_withdraw"
    /\ trace' = trace \o << "remove_liquidity_one_coin", "wait_for_transaction_receipt" >>
    /\ \E out \in OutInputs, mined \in BOOLEAN :
         LET success == mined /\ out >= locals.min_received
             status == IF success THEN 1 ELSE 0
         IN  /\ chain' = IF success
                         THEN [chain EXCEPT !.lp = @ - locals.burn_amount, !.usdc = @ + out]
                         ELSE chain
             /\ locals' = [locals EXCEPT !.tx_hash = "0xtx", !.status = status]
             /\ IF status # 1
                THEN pc' = "exit" /\ exit' = SysExit("transaction_failed", "0xtx")
                ELSE pc' = "report" /\ exit' = exit
    /\ UNCHANGED <<argv, coins>>

\* The withdrawal without the dry-run branch before it.
WithdrawOneCoin_in_dry_run == withdraw_one_coin

\* main, lines 270 and 283-286: the withdrawal, unless this is a dry run.
WithdrawOneCoin ==
    /\ ~argv.dry_run
    /\ withdraw_one_coin

\* main, lines 288-304: the second snapshot, the deltas and log_result.
ReportResult ==
    /\ pc = "report"
    /\ trace' = trace \o << "read_balances", "log_result" >>
    /\ LET after == read_balances(chain)
       IN  locals' = [locals EXCEPT
                        !.balances_after = after,
                        !.lp_burned = locals.balances_before.lp_balance - after.lp_balance,
                        !.usdc_received = after.usdc_balance - locals.balances_before.usdc_balance]
    /\ pc' = "done"
    /\ exit' = [code |-> 0, msg |-> "success", hash |-> locals.tx_hash]
    /\ UNCHANGED <<argv, coins, chain>>

Next ==
    \/ ParseArgs
    \/ GetWeb3
    \/ ToChecksum
    \/ Accounts
    \/ ImpersonateAndFund
    \/ GetUsdcIndex
    \/ ReadBalancesBefore
    \/ CalcBurnAmount
    \/ EstimateUsdc
    \/ ComputeMinReceived
    \/ DryRun
    \/ WithdrawOneCoin
    \/ ReportResult

Spec == Init /\ [][Next]_vars

\* The runs of SpecIndex: every coin list of up to MaxCoins entries, with a
\* well-formed command line.
InitIndex ==
    /\ InitRun
    /\ argv \in [impersonated_address : {Addr("holder", "checksum"), Addr("holder", "malformed")},
                 burn_bps : {0, 100}, dry_run : BOOLEAN]
    /\ coins \in SeqsUpTo(CoinInputs, MaxCoins) \cup PoolCoinLists
    /\ chain \in [lp : {0, 200000}, usdc : {0}, eth_tenths : {0}, impersonating : {FALSE}]

SpecIndex == InitIndex /\ [][Next]_vars

\* ----------------------------------------------------------------- claims

\* q is the floor of num / den.
IsFloor(q, num, den) == q * den <= num /\ num < (q + 1) * den

Sized == Did("calc_burn_amount")
Lp == locals.balances_before.lp_balance
BpsInRange == 1 <= argv.burn_bps /\ argv.burn_bps <= 10000

\* C1 as stated: for every shareBalance > 0 and burnBps in 1..10000,
\* calc_burn_amount returns floor(shareBalance * burnBps / 10000).
C1_ReturnsFloorForEveryInput ==
    (Sized /\ Lp > 0 /\ BpsInRange) =>
        /\ locals.burn_amount # NONE
        /\ IsFloor(locals.burn_amount, Lp * argv.burn_bps, 10000)

\* C1 as amended: for every shareBalance > 0 and burnBps in 1..10000 whose
\* floor(shareBalance * burnBps / 10000) is not zero, calc_burn_amount returns
\* that floor (and does not exit).
C1_ReturnsNonZeroFloor ==
    (Sized /\ Lp > 0 /\ BpsInRange /\ Lp * argv.burn_bps >= 10000) =>
        /\ locals.burn_amount # NONE
        /\ IsFloor(locals.burn_amount, Lp * argv.burn_bps, 10000)
        /\ exit.msg # "burn_amount_zero"

C1_Witness ==
    /\ Sized
    /\ Lp = 200000
    /\ argv.burn_bps = 100
    /\ locals.burn_amount = 2000

\* C2: whenever floor(shareBalance * burnBps / 10000) is zero, calc_burn_amount
\* ends the run with an error instead of returning zero, and no withdrawal
\* transaction is submitted in that run.
C2_ZeroBurnExits ==
    (Sized /\ Lp * argv.burn_bps < 10000) =>
        /\ pc = "exit"
        /\ exit = SysExit("burn_amount_zero", "")
        /\ locals.burn_amount = NONE
        /\ ~Did("calc_withdraw_one_coin")
        /\ ~Did("remove_liquidity_one_coin")

C2_Witness ==
    /\ Sized
    /\ Lp = 50
    /\ argv.burn_bps = 1
    /\ pc = "exit"
    /\ exit.msg = "burn_amount_zero"

\* C3: in every run that reaches the dry-run report or the withdrawal
\* submission, 0 < burnAmount <= shareBalance of the first snapshot,
\* minReceived <= expectedOutput, minReceived = expectedOutput * 99 // 100 and
\* burnBps is within 1..10000.
C3_PlanInvariant ==
    (Did("log_dry_run") \/ Did("remove_liquidity_one_coin")) =>
        /\ 0 < locals.burn_amount
        /\ locals.burn_amount <= Lp
        /\ locals.min_received <= locals.expected_usdc
        /\ IsFloor(locals.min_received, locals.expected_usdc * 99, 100)
        /\ BpsInRange

C3_Witness ==
    /\ Did("remove_liquidity_one_coin")
    /\ Lp = 200000
    /\ locals.burn_amount = 2000
    /\ locals.expected_usdc = 9850
    /\ locals.min_received = 9751

\* C4: get_usdc_index probes positions 0..3 in order, stops at the first
\* position whose coins() read fails, and returns the first position whose
\* checksum-normalized address equals the target; with no match before the
\* bound or before a read failure it ends the run with an error and returns no
\* default index.
IndexStepDone == locals.usdc_index # NONE \/ exit.msg = "usdc_not_found"
\* Position i (0-based) of the pool's list holds the target, however spelled.
HoldsUsdc(i) == i < Len(coins) /\ coins[i + 1].id = "usdc" /\ IsAddress(coins[i + 1])
\* The positions the loop may read: below the bound, up to the first failure.
Readable == { i \in 0..3 : i < Len(coins) }
C4_FirstMatchOrExit ==
    IndexStepDone =>
        LET probed == locals.probed
            n == Len(probed)
            matches == { i \in Readable : HoldsUsdc(i) }
        IN  /\ n <= 4
            /\ \A k \in 1..n : probed[k] = k - 1
            /\ Count("coins") = n
            /\ IF matches # {}
               THEN /\ locals.usdc_index \in matches
                    /\ \A j \in matches : locals.usdc_index <= j
                    /\ n = locals.usdc_index + 1
                    /\ exit.msg # "usdc_not_found"
               ELSE /\ locals.usdc_index = NONE
                    /\ pc = "exit"
                    /\ exit = SysExit("usdc_not_found", "")
                    /\ n = IF Len(coins) < 4 THEN Len(coins) + 1 ELSE 4
                    /\ ~Did("read_balances")

C4_Witness ==
    /\ coins = << Addr("tokenA", "checksum"), Addr("tokenB", "checksum"),
                  Addr("usdc", "lower"), Addr("tokenD", "checksum") >>
    /\ locals.usdc_index = 2
    /\ locals.probed = <<0, 1, 2>>

\* C5: in a run with the dry-run toggle set the withdrawal transaction is never
\* submitted, and a snapshot of the holder's LP and asset balances taken right
\* after the dry-run report equals the snapshot taken before it.
C5_DryRunMutatesNoBalance ==
    /\ argv.dry_run => ~Did("remove_liquidity_one_coin")
    /\ Did("log_dry_run") =>
          /\ argv.dry_run
          /\ read_balances(chain) = locals.balances_before
          /\ pc = "done"

C5_Witness ==
    /\ Did("log_dry_run")
    /\ pc = "done"
    /\ locals.balances_before.lp_balance = 200000
    /\ locals.balances_before.usdc_balance = 7

\* C6 as stated: a malformed impersonated address, burn basis points outside
\* 1..10000 and a missing impersonated address are reported, and end the run,
\* before any network interaction with the node.
UsageExit == pc = "exit" /\ exit.msg \in {"missing_address", "burn_bps_range", "invalid_address"}
NoNetwork == \A k \in 1..Len(trace) : trace[k] \notin RpcEvents
C6_UsageErrorsBeforeAnyNetwork == UsageExit => NoNetwork

\* C6 as amended: a missing impersonated address and burn basis points outside
\* 1..10000 end the run before any network interaction; a malformed
\* impersonated address ends it after the connection check, which is the only
\* network interaction of that run.
C6_UsageErrorsBeforeNodeState ==
    /\ (argv.impersonated_address.form = "none" \/ ~BpsInRange) =>
          /\ trace = << >>
          /\ pc \in {"parse_args", "exit"}
          /\ pc = "exit" => (exit.code = 2 /\ exit.msg \in {"missing_address", "burn_bps_range"})
    /\ (argv.impersonated_address.form = "malformed" /\ BpsInRange) =>
          /\ trace \in { << >>, << "is_connected" >> }
          /\ pc \in {"parse_args", "get_web3", "to_checksum", "exit"}
          /\ pc = "exit" => exit.msg \in {"connect_failed", "invalid_address"}
    /\ (pc = "exit" /\ exit.msg = "invalid_address") => trace = << "is_connected" >>

C6_Witness ==
    /\ pc = "exit"
    /\ exit.msg = "invalid_address"
    /\ trace = << "is_connected" >>

\* C7: a zero LP balance in the first snapshot ends the run before
\* calc_burn_amount, estimate_usdc or the min-received computation, and before
\* any withdrawal transaction.
C7_ZeroLpAbortsBeforeSizing ==
    Lp = 0 =>
        /\ pc = "exit"
        /\ exit = SysExit("lp_balance_zero", "")
        /\ ~Did("calc_burn_amount")
        /\ ~Did("calc_withdraw_one_coin")
        /\ ~Did("min_received")
        /\ ~Did("remove_liquidity_one_coin")

C7_Witness ==
    /\ Lp = 0
    /\ pc = "exit"
    /\ exit.msg = "lp_balance_zero"

\* C8: in any run remove_liquidity_one_coin is submitted at most once; a
\* receipt whose status is not success ends the run with an error that carries
\* the transaction hash, and nothing is resubmitted.
C8_WithdrawalSubmittedAtMostOnce ==
    /\ Count("remove_liquidity_one_coin") <= 1
    /\ (locals.status # NONE /\ locals.status # 1) =>
          /\ pc = "exit"
          /\ exit.code = 1
          /\ exit.msg = "transaction_failed"
          /\ exit.hash = locals.tx_hash
          /\ exit.hash # ""

C8_Witness ==
    /\ locals.status = 0
    /\ Count("remove_liquidity_one_coin") = 1
    /\ exit = SysExit("transaction_failed", "0xtx")

\* C9: in every run that reaches the result report, assetReceived =
\* after.assetBalance - before.assetBalance is at least minReceived, the pool
\* reverting the whole transaction when it would pay less; a run whose
\* transaction was reverted has ended with a transaction failure instead.
C9_ReceivedAtLeastMin ==
    /\ Did("log_result") =>
          /\ locals.status = 1
          /\ locals.usdc_received =
                locals.balances_after.usdc_balance - locals.balances_before.usdc_balance
          /\ locals.usdc_received >= locals.min_received
    /\ (Did("wait_for_transaction_receipt") /\ chain.usdc - locals.balances_before.usdc_balance < locals.min_received) =>
          /\ ~Did("log_result")
          /\ exit.msg = "transaction_failed"

C9_Witness ==
    /\ Did("log_result")
    /\ locals.min_received = 9751
    /\ locals.usdc_received = 9850
    /\ locals.lp_burned = 2000

\* C10 as stated: in every run that passes argument parsing, the connection
\* check, address normalization and the funding-account check, the
\* impersonation request and exactly one funding transaction are issued.
PassedFundingCheck == locals.funding_account # NoAddress
C10_FundedWheneverChecksPass ==
    (PassedFundingCheck /\ pc # "impersonate_and_fund") =>
        /\ Count("anvil_impersonateAccount") = 1
        /\ Count("eth_sendTransaction") = 1

\* C10 as amended: in every run that passes argument parsing, the connection
\* check, address normalization and the funding-account check, and whose
\* impersonation request succeeds, the impersonation request and
\* exactly one funding transaction are issued before the asset index is
\* resolved and before any balance guard; a run that then aborts on a state
\* error, or is a dry run, has already changed chain state by that transaction.
StateErrorExit ==
    pc = "exit" /\ exit.msg \in {"usdc_not_found", "lp_balance_zero", "burn_amount_zero",
                                 "estimate_zero"}
C10_FundedBeforeIndexAndGuards ==
    /\ (PassedFundingCheck /\ pc # "impersonate_and_fund" /\ exit.msg # "impersonation_error") =>
          /\ Count("anvil_impersonateAccount") = 1
          /\ Count("eth_sendTransaction") = 1
          /\ Before("eth_accounts", "anvil_impersonateAccount")
          /\ Before("anvil_impersonateAccount", "eth_sendTransaction")
          /\ Before("eth_sendTransaction", "coins")
          /\ Before("eth_sendTransaction", "read_balances")
          /\ Before("eth_sendTransaction", "calc_burn_amount")
          /\ chain.eth_tenths = 1
          /\ chain.impersonating
    /\ (Did("coins") \/ Did("read_balances") \/ StateErrorExit \/ Did("log_dry_run")) =>
          /\ Count("eth_sendTransaction") = 1
          /\ chain.eth_tenths = 1
    /\ exit.msg = "impersonation_error" => (Count("eth_sendTransaction") = 0 /\ chain.eth_tenths = 0)

C10_Witness ==
    /\ StateErrorExit
    /\ exit.msg = "lp_balance_zero"
    /\ chain.eth_tenths = 1
    /\ Count("eth_sendTransaction") = 1

====
